---- MODULE Spec2Model ----
(***************************************************************************)
(* A model of ap-yaml-editor: the option extractor and the structure-      *)
(* preserving export of src/utils/yamlParser.ts, and the editing session   *)
(* of src/App.tsx that drives them.                                        *)
(*                                                                         *)
(* The functions of the `yaml` package that the code calls (parseDocument, *)
(* Document.toJSON, Document.createNode, Document.toString, YAMLMap.get,   *)
(* YAMLMap.add, isMap) are modelled at their call sites by what they do to *)
(* a document tree: mapping, sequence and scalar nodes, each with the      *)
(* comment before it, the comment after it and, for collections, the flow  *)
(* flag.  A text is identified with the tree and the error list that       *)
(* parseDocument composes from it.  Anchors, aliases, tags and complex     *)
(* (non-scalar) keys are not modelled.                                     *)
(***************************************************************************)
EXTENDS Integers, Sequences, FiniteSets, TLC

(***************************************************************************)
(* Bounds of the model.                                                    *)
(***************************************************************************)
\* edits a session makes between two loads
MaxEdits == 2
\* members of a mapping value an edit can produce
MaxMembers == 2
\* calls of handleLoadFile that have not returned
MaxLoads == 1
\* calls of handleSaveAs that have not returned
MaxSaves == 1

(***************************************************************************)
(* JavaScript values.  A scalar carries its type and String(value).        *)
(***************************************************************************)
Undefined == [t |-> "undefined"]
JNull == [t |-> "null"]
JStr(s) == [t |-> "string", v |-> s]
JNum(s) == [t |-> "number", v |-> s]
JBool(s) == [t |-> "boolean", v |-> s]
\* a value the serializer has no tag for (a function, a symbol)
JFunc == [t |-> "function"]
JArr(items) == [t |-> "array", items |-> items]
\* an object: its own properties <<[k, v]>> in property order
JObj(items) == [t |-> "object", items |-> items]

\* the canonical array-index strings the model uses, with their values
IndexVal == [s \in {"0", "1", "10", "50"} |->
               CASE s = "0" -> 0 [] s = "1" -> 1 [] s = "10" -> 10 [] s = "50" -> 50]

IsIndexKey(k) == k \in DOMAIN IndexVal

RECURSIVE InsertIndexKey(_, _)
\* e put into the ascending run of index keys at the head of items
InsertIndexKey(items, e) ==
  IF items = << >> THEN <<e>>
  ELSE IF IsIndexKey(Head(items).k) /\ IndexVal[Head(items).k] < IndexVal[e.k]
       THEN <<Head(items)>> \o InsertIndexKey(Tail(items), e)
       ELSE <<e>> \o items

KeyPos(items, k) ==
  LET hits == {i \in 1..Len(items) : items[i].k = k}
  IN IF hits = {} THEN 0 ELSE CHOOSE i \in hits : \A j \in hits : i <= j

\* obj[k] = v: an own property keeps its place, a new integer-like key sorts
\* among the integer-like keys at the front, any other new key goes last
SetProp(items, k, v) ==
  LET i == KeyPos(items, k)
  IN IF i # 0 THEN [items EXCEPT ![i].v = v]
     ELSE IF IsIndexKey(k) THEN InsertIndexKey(items, [k |-> k, v |-> v])
     ELSE Append(items, [k |-> k, v |-> v])

\* obj[k]
GetProp(items, k) ==
  LET i == KeyPos(items, k) IN IF i = 0 THEN Undefined ELSE items[i].v

\* Object.keys(obj)
ObjectKeys(items) == [i \in 1..Len(items) |-> items[i].k]

\* String(value) of a scalar
StringOf(val) ==
  CASE val.t = "null" -> "null"
    [] val.t = "undefined" -> "undefined"
    [] val.t = "function" -> "function"
    [] OTHER -> val.v

\* JavaScript truthiness of a scalar
Truthy(val) ==
  CASE val.t \in {"null", "undefined"} -> FALSE
    [] val.t = "string" -> val.v # ""
    [] val.t = "number" -> val.v # "0"
    [] val.t = "boolean" -> val.v = "true"
    [] OTHER -> TRUE

(***************************************************************************)
(* Document trees.                                                         *)
(***************************************************************************)
\* no comment on a node: the property is absent
NoComment == "<none>"

Scalar(val, before, after) ==
  [kind |-> "scalar", value |-> val, commentBefore |-> before, comment |-> after]
YMap(items, flow, before, after) ==
  [kind |-> "map", items |-> items, flow |-> flow,
   commentBefore |-> before, comment |-> after]
YSeq(items, flow, before, after) ==
  [kind |-> "seq", items |-> items, flow |-> flow,
   commentBefore |-> before, comment |-> after]
Pair(key, value) == [key |-> key, value |-> value]

\* contents of an empty document
NullContents == [kind |-> "null"]

isMap(node) == node.kind = "map"
isCollection(node) == node.kind \in {"map", "seq"}

(***************************************************************************)
(* The yaml package, as called by yamlParser.ts.                           *)
(***************************************************************************)
\* a text: what parseDocument composes from it
Text(errors, contents) == [errors |-> errors, contents |-> contents]

\* parseDocument(text): collects syntax errors in document.errors and
\* returns; it does not throw
parseDocument(text) ==
  [threw |-> FALSE, errors |-> text.errors, contents |-> text.contents]

\* the property name a mapping key decodes to
KeyString(key) == StringOf(key.value)

RECURSIVE toJS(_)
RECURSIVE PairsToJS(_, _)
\* the pairs of a mapping node set one by one on a plain object
PairsToJS(items, acc) ==
  IF items = << >> THEN acc
  ELSE PairsToJS(Tail(items),
                 SetProp(acc, KeyString(Head(items).key), toJS(Head(items).value)))

\* Node.toJS
toJS(node) ==
  CASE node.kind = "null" -> JNull
    [] node.kind = "scalar" -> node.value
    [] node.kind = "seq" -> JArr([i \in 1..Len(node.items) |-> toJS(node.items[i])])
    [] node.kind = "map" -> JObj(PairsToJS(node.items, << >>))

\* document.toJSON()
toJSON(document) == toJS(document.contents)

RECURSIVE createNode(_)
RECURSIVE CreatePairs(_)
\* createMap: one pair per own property, undefined values left out
CreatePairs(props) ==
  IF props = << >> THEN << >>
  ELSE IF Head(props).v = Undefined THEN CreatePairs(Tail(props))
  ELSE <<Pair(Scalar(JStr(Head(props).k), NoComment, NoComment),
              createNode(Head(props).v))>> \o CreatePairs(Tail(props))

\* document.createNode(value): a fresh node, block style, no comments
createNode(value) ==
  CASE value.t = "array" ->
         YSeq([i \in 1..Len(value.items) |-> createNode(value.items[i])],
              FALSE, NoComment, NoComment)
    [] value.t = "object" ->
         YMap(CreatePairs(value.items), FALSE, NoComment, NoComment)
    [] OTHER -> Scalar(value, NoComment, NoComment)

RECURSIVE HasUnresolvedTag(_)
\* a scalar in the tree that stringify finds no tag for
HasUnresolvedTag(node) ==
  CASE node.kind = "scalar" -> node.value.t = "function"
    [] node.kind = "seq" -> \E i \in 1..Len(node.items) : HasUnresolvedTag(node.items[i])
    [] node.kind = "map" ->
         \E i \in 1..Len(node.items) :
           HasUnresolvedTag(node.items[i].key) \/ HasUnresolvedTag(node.items[i].value)
    [] OTHER -> FALSE

RECURSIVE Written(_, _)
\* the tree a parse of the written text composes: an empty collection is
\* written {} or [], a collection inside a flow collection is written in
\* flow style, undefined is written null
Written(node, inFlow) ==
  CASE node.kind = "scalar" ->
         IF node.value = Undefined THEN [node EXCEPT !.value = JNull] ELSE node
    [] node.kind = "seq" ->
         LET flow == inFlow \/ node.flow \/ node.items = << >>
         IN [node EXCEPT !.flow = flow,
                         !.items = [i \in 1..Len(node.items) |->
                                      Written(node.items[i], flow)]]
    [] node.kind = "map" ->
         LET flow == inFlow \/ node.flow \/ node.items = << >>
         IN [node EXCEPT !.flow = flow,
                         !.items = [i \in 1..Len(node.items) |->
                                      Pair(Written(node.items[i].key, flow),
                                           Written(node.items[i].value, flow))]]
    [] OTHER -> Scalar(JNull, NoComment, NoComment)

\* document.toString(): throws on a document with errors and on a value
\* without a tag, else the text
toString(document) ==
  IF document.errors \/ HasUnresolvedTag(document.contents)
  THEN [threw |-> TRUE]
  ELSE [threw |-> FALSE, text |-> Text(FALSE, Written(document.contents, FALSE))]

\* item.key?.value || item.key?.toString()
KeyValue(item) ==
  IF Truthy(item.key.value) THEN item.key.value ELSE JStr(StringOf(item.key.value))

\* items.find(item => keyValue === key): the index of the first hit, or 0
FindByKeyValue(items, key) ==
  LET hits == {i \in 1..Len(items) : KeyValue(items[i]) = JStr(key)}
  IN IF hits = {} THEN 0 ELSE CHOOSE i \in hits : \A j \in hits : i <= j

\* findPair(items, key) of the yaml package: the key scalar's value === key
findPair(items, key) ==
  LET hits == {i \in 1..Len(items) : items[i].key.value = JStr(key)}
  IN IF hits = {} THEN 0 ELSE CHOOSE i \in hits : \A j \in hits : i <= j

\* YAMLMap.get(key, true): the value node of the pair, or Undefined
MapGet(map, key) ==
  LET i == findPair(map.items, key)
  IN IF i = 0 THEN Undefined ELSE map.items[i].value

\* the comments as they stand in the text, and String.trim() of them
Trimmed ==
  [c \in {" name", " pick one", " weights", " second", " note", " low", " rare"} |->
     CASE c = " name" -> "name" [] c = " pick one" -> "pick one"
       [] c = " weights" -> "weights" [] c = " second" -> "second"
       [] c = " note" -> "note" [] c = " low" -> "low" [] c = " rare" -> "rare"]

trim(c) == Trimmed[c]

(***************************************************************************)
(* src/utils/yamlParser.ts                                                 *)
(***************************************************************************)
\* typeof value === 'number' for every own property value
EveryNumber(props) == \A i \in 1..Len(props) : props[i].v.t = "number"

\* determineType asking for at least one member before it answers weighted
determineTypeNonEmpty(value) ==
  IF value.t = "array" THEN "array"
  ELSE IF value.t = "object"
       THEN IF value.items # << >> /\ EveryNumber(value.items)
            THEN "weighted" ELSE "object"
  ELSE IF value.t = "boolean" THEN "boolean"
  ELSE IF value.t = "number" THEN "number"
  ELSE "string"

determineType(value) ==
  IF value.t = "array" THEN "array"
  ELSE IF value.t = "object"
       THEN IF EveryNumber(value.items) THEN "weighted" ELSE "object"
  ELSE IF value.t = "boolean" THEN "boolean"
  ELSE IF value.t = "number" THEN "number"
  ELSE "string"

rootKeys == <<"description", "name", "game", "requires">>

\* no key is recognized as a root key
IsRootKeyNone(k) == FALSE

IsRootKey(k) == \E i \in 1..Len(rootKeys) : rootKeys[i] = k

\* the node getComment and isFlowStyle look at: the value node of key at the
\* top level, or inside the mapping under parent; Undefined when any step
\* finds nothing
LookupNode(document, key, parent) ==
  IF ~isMap(document.contents) THEN Undefined
  ELSE IF Truthy(parent)
       THEN LET parentNode == MapGet(document.contents, parent.v)
            IN IF parentNode # Undefined /\ isMap(parentNode)
               THEN MapGet(parentNode, key)
               ELSE Undefined
       ELSE MapGet(document.contents, key)

getComment(document, key, parent) ==
  LET node == LookupNode(document, key, parent)
  IN IF node = Undefined THEN NoComment
     ELSE IF node.commentBefore # NoComment THEN trim(node.commentBefore)
     ELSE IF node.comment # NoComment THEN trim(node.comment)
     ELSE NoComment

isFlowStyle(document, key, parent) ==
  LET node == LookupNode(document, key, parent)
  IN IF node = Undefined THEN FALSE
     ELSE IF isCollection(node) THEN node.flow
     ELSE FALSE

\* one ParsedOption
MakeOption(document, key, value, parent) ==
  [key |-> key, value |-> value, type |-> determineType(value),
   originalValue |-> value,
   comment |-> getComment(document, key, parent),
   isFlowStyle |-> isFlowStyle(document, key, parent)]

\* the canonical string of an array index
IndexStr(i) == CHOOSE s \in DOMAIN IndexVal : IndexVal[s] = i - 1

\* the enumerable properties of a value, in for-in order: those of an
\* object, the elements of an array under their indices; the index
\* properties of a string are one-character strings and are left out, a
\* number or a boolean has none
OwnProps(value) ==
  CASE value.t = "object" -> value.items
    [] value.t = "array" ->
         [i \in 1..Len(value.items) |-> [k |-> IndexStr(i), v |-> value.items[i]]]
    [] OTHER -> << >>

\* for (const key of rootKeys) if (parsed[key] !== undefined) push
ExtractRoot(document, parsed) ==
  LET present == SelectSeq(rootKeys,
                   LAMBDA k : GetProp(OwnProps(parsed), k) # Undefined)
  IN [i \in 1..Len(present) |->
        MakeOption(document, present[i], GetProp(OwnProps(parsed), present[i]),
                   Undefined)]

RECURSIVE ExtractGames(_, _, _)
\* for (const key in parsed): a section for every other key whose value is
\* an object
ExtractGames(document, props, acc) ==
  IF props = << >> THEN acc
  ELSE LET key == Head(props).k
           gameSettings == Head(props).v
           settings == OwnProps(gameSettings)
       IN ExtractGames(document, Tail(props),
            IF ~IsRootKey(key) /\ gameSettings.t \in {"object", "array"}
            THEN SetProp(acc, key,
                   [i \in 1..Len(settings) |->
                      MakeOption(document, settings[i].k, settings[i].v, JStr(key))])
            ELSE acc)

parseYamlTemplate(yamlContent) ==
  LET document == parseDocument(yamlContent)
      parsed == toJSON(document)
  IN IF document.threw THEN [threw |-> TRUE, error |-> "SyntaxError"]
     ELSE IF parsed.t \in {"null", "undefined"}
          THEN [threw |-> TRUE, error |-> "TypeError"]
     ELSE [threw |-> FALSE,
           rootOptions |-> ExtractRoot(document, parsed),
           gameOptions |-> ExtractGames(document, OwnProps(parsed), << >>),
           document |-> document]

\* the root options loop inserting the option it does not find
RECURSIVE UpdateRootOptionsInsert(_, _)
UpdateRootOptionsInsert(items, options) ==
  IF options = << >> THEN items
  ELSE LET option == Head(options)
           pair == FindByKeyValue(items, option.key)
       IN UpdateRootOptionsInsert(
            IF pair # 0
            THEN [items EXCEPT ![pair].value = createNode(option.value)]
            ELSE Append(items, Pair(createNode(JStr(option.key)),
                                    createNode(option.value))),
            Tail(options))

RECURSIVE UpdateRootOptions(_, _)
\* the root options loop: the value of the pair found is replaced
UpdateRootOptions(items, options) ==
  IF options = << >> THEN items
  ELSE LET option == Head(options)
           pair == FindByKeyValue(items, option.key)
       IN UpdateRootOptions(
            IF pair # 0
            THEN [items EXCEPT ![pair].value = createNode(option.value)]
            ELSE items,
            Tail(options))

\* YAMLMap.add({key, value}): throws when findPair finds the key
MapAdd(items, key, value) ==
  IF findPair(items, key) # 0 THEN [threw |-> TRUE, items |-> items]
  ELSE [threw |-> FALSE,
        items |-> Append(items, Pair(createNode(JStr(key)), createNode(value)))]

RECURSIVE UpdateExistingKeys(_, _)
\* for (const [key, val] of Object.entries(newValueObj))
UpdateExistingKeys(acc, entries) ==
  IF entries = << >> \/ acc.threw THEN acc
  ELSE LET key == Head(entries).k
           val == Head(entries).v
           existingPair == FindByKeyValue(acc.items, key)
       IN UpdateExistingKeys(
            IF existingPair # 0
            THEN [acc EXCEPT !.items[existingPair].value = createNode(val)]
            ELSE MapAdd(acc.items, key, val),
            Tail(entries))

\* oldValue.items filtered to the keys of the new value
RemoveMissingKeys(items, newKeys) ==
  SelectSeq(items,
    LAMBDA item : \E i \in 1..Len(newKeys) : KeyValue(item) = JStr(newKeys[i]))

\* the new value node of one option pair of a section
UpdateOptionValue(oldValue, option) ==
  IF option.value.t # "object"
  THEN [threw |-> FALSE, node |-> createNode(option.value)]
  ELSE IF isMap(oldValue)
       THEN LET upd == UpdateExistingKeys([threw |-> FALSE, items |-> oldValue.items],
                                          option.value.items)
            IN [threw |-> upd.threw,
                node |-> [oldValue EXCEPT !.items =
                            RemoveMissingKeys(upd.items, ObjectKeys(option.value.items))]]
       ELSE [threw |-> FALSE, node |-> createNode(option.value)]

\* the section loop adding the option it does not find
RECURSIVE UpdateSectionInsert(_, _)
UpdateSectionInsert(acc, options) ==
  IF options = << >> \/ acc.threw THEN acc
  ELSE LET option == Head(options)
           optionPair == FindByKeyValue(acc.items, option.key)
           upd == UpdateOptionValue(acc.items[optionPair].value, option)
       IN UpdateSectionInsert(
            IF optionPair # 0
            THEN [threw |-> upd.threw,
                  items |-> [acc.items EXCEPT ![optionPair].value = upd.node]]
            ELSE [acc EXCEPT !.items =
                    Append(acc.items, Pair(createNode(JStr(option.key)),
                                           createNode(option.value)))],
            Tail(options))

RECURSIVE UpdateSection(_, _)
\* for (const option of gameOptions[gameName])
UpdateSection(acc, options) ==
  IF options = << >> \/ acc.threw THEN acc
  ELSE LET option == Head(options)
           optionPair == FindByKeyValue(acc.items, option.key)
           upd == UpdateOptionValue(acc.items[optionPair].value, option)
       IN UpdateSection(
            IF optionPair # 0
            THEN [threw |-> upd.threw,
                  items |-> [acc.items EXCEPT ![optionPair].value = upd.node]]
            ELSE acc,
            Tail(options))

RECURSIVE UpdateGameOptions(_, _)
\* for (const gameName in gameOptions)
UpdateGameOptions(acc, games) ==
  IF games = << >> \/ acc.threw THEN acc
  ELSE LET gameName == Head(games).k
           gamePair == FindByKeyValue(acc.items, gameName)
           gameMap == acc.items[gamePair].value
           upd == UpdateSection([threw |-> FALSE, items |-> gameMap.items],
                                Head(games).v)
       IN UpdateGameOptions(
            IF gamePair # 0 /\ isMap(gameMap)
            THEN [threw |-> upd.threw,
                  items |-> [acc.items EXCEPT ![gamePair].value.items = upd.items]]
            ELSE acc,
            Tail(games))

RECURSIVE SectionObjectOriginal(_, _)
\* the options written with the values they were parsed with
SectionObjectOriginal(options, acc) ==
  IF options = << >> THEN acc
  ELSE SectionObjectOriginal(Tail(options),
         SetProp(acc, Head(options).key, Head(options).originalValue))

RECURSIVE SectionObject(_, _)
\* result[gameName][option.key] = option.value
SectionObject(options, acc) ==
  IF options = << >> THEN acc
  ELSE SectionObject(Tail(options), SetProp(acc, Head(options).key, Head(options).value))

RECURSIVE AddGames(_, _)
AddGames(games, acc) ==
  IF games = << >> THEN acc
  ELSE AddGames(Tail(games),
                SetProp(acc, Head(games).k, JObj(SectionObject(Head(games).v, << >>))))

\* the fallback: a new document from the options alone
Regenerate(rootOptions, gameOptions) ==
  LET result == AddGames(gameOptions, SectionObject(rootOptions, << >>))
      document == [parseDocument(Text(FALSE, NullContents))
                     EXCEPT !.contents = createNode(JObj(result))]
      out == toString(document)
  IN IF out.threw THEN [threw |-> TRUE, path |-> "fallback"]
     ELSE [threw |-> FALSE, path |-> "fallback", text |-> out.text]

\* the try block: the clone of the original document updated in place
SurgicalMerge(rootOptions, gameOptions, originalDocument) ==
  LET source == toString(originalDocument)
      clonedDoc == parseDocument(source.text)
      roots == UpdateRootOptions(clonedDoc.contents.items, rootOptions)
      games == UpdateGameOptions([threw |-> FALSE, items |-> roots], gameOptions)
      out == toString([clonedDoc EXCEPT !.contents.items = games.items])
  IN IF source.threw THEN [threw |-> TRUE]
     ELSE IF ~isMap(clonedDoc.contents) THEN [threw |-> TRUE]
     ELSE IF games.threw THEN [threw |-> TRUE]
     ELSE out

exportToYaml(rootOptions, gameOptions, originalDocument) ==
  LET merged == SurgicalMerge(rootOptions, gameOptions, originalDocument)
  IN IF originalDocument # Undefined /\ isMap(originalDocument.contents)
        /\ ~merged.threw
     THEN [threw |-> FALSE, path |-> "merge", text |-> merged.text]
     ELSE Regenerate(rootOptions, gameOptions)

\* the retained document in place of its clone: the tree the merge would
\* leave behind if it updated the document it was handed
DocumentAfterExportInPlace(rootOptions, gameOptions, originalDocument) ==
  LET roots == UpdateRootOptions(originalDocument.contents.items, rootOptions)
      games == UpdateGameOptions([threw |-> FALSE, items |-> roots], gameOptions)
  IN IF originalDocument # Undefined /\ isMap(originalDocument.contents)
     THEN [originalDocument EXCEPT !.contents.items = games.items]
     ELSE originalDocument

\* the document the caller holds after exportToYaml returns: every update
\* of the merge goes to clonedDoc, a parse of the text of the document, and
\* the fallback builds a document of its own
DocumentAfterExport(rootOptions, gameOptions, originalDocument) ==
  originalDocument

validateYaml(yamlContent) ==
  IF parseDocument(yamlContent).threw
  THEN [valid |-> FALSE, error |-> "Unknown error"]
  ELSE [valid |-> TRUE, error |-> ""]

(***************************************************************************)
(* Texts.                                                                  *)
(***************************************************************************)
\* plain nodes
Key(s) == Scalar(JStr(s), NoComment, NoComment)
\* a key with a comment line above it
KeyC(s, c) == Scalar(JStr(s), c, NoComment)
Str(s) == Scalar(JStr(s), NoComment, NoComment)
Num(s) == Scalar(JNum(s), NoComment, NoComment)
Block(items) == YMap(items, FALSE, NoComment, NoComment)
Flow(items) == YMap(items, TRUE, NoComment, NoComment)

(* description: My Archipelago Configuration
   name: Player1
   game:
     A Link to the Past: 1

   A Link to the Past:
     accessibility: full
     progression_balancing: 50                                            *)
generateDefaultTemplate ==
  Text(FALSE, Block(<<
    Pair(Key("description"), Str("My Archipelago Configuration")),
    Pair(Key("name"), Str("Player1")),
    Pair(Key("game"), Block(<<Pair(Key("A Link to the Past"), Num("1"))>>)),
    Pair(Key("A Link to the Past"), Block(<<
      Pair(Key("accessibility"), Str("full")),
      Pair(Key("progression_balancing"), Num("50"))>>))>>))

(* name: Player1 # note
   game: {A: 1, B: 2}
   GameA:
     accessibility: full # pick one
     # second
     progression: 50
     weights: # weights
       a: 10
       # low
       b: 5
     items: [x, y]                                                        *)
CommentedText ==
  Text(FALSE, Block(<<
    Pair(Key("name"), Scalar(JStr("Player1"), NoComment, " note")),
    Pair(Key("game"), Flow(<<Pair(Key("A"), Num("1")), Pair(Key("B"), Num("2"))>>)),
    Pair(Key("GameA"), Block(<<
      Pair(Key("accessibility"), Scalar(JStr("full"), NoComment, " pick one")),
      Pair(KeyC("progression", " second"), Num("50")),
      Pair(Key("weights"), YMap(<<
        Pair(Key("a"), Num("10")),
        Pair(KeyC("b", " low"), Num("5"))>>, FALSE, " weights", NoComment)),
      Pair(Key("items"), YSeq(<<Str("x"), Str("y")>>, TRUE, NoComment, NoComment))>>))>>))

(* game:
     A: 1
     # second
     B: 2
   requires:
     version: 0.4.4
   GameA:
     # name
     mode: easy
     goal: {a: 10, b: 5}                                                  *)
BlockRootText ==
  Text(FALSE, Block(<<
    Pair(Key("game"), Block(<<
      Pair(Key("A"), Num("1")),
      Pair(KeyC("B", " second"), Num("2"))>>)),
    Pair(Key("requires"), Block(<<Pair(Key("version"), Str("0.4.4"))>>)),
    Pair(Key("GameA"), YMap(<<
      Pair(Key("mode"), Str("easy")),
      Pair(Key("goal"), Flow(<<Pair(Key("a"), Num("10")), Pair(Key("b"), Num("5"))>>))>>,
      FALSE, " name", NoComment))>>))

(* GameA:
     hint_cost:
       a: 0
       # rare
       10: 50
     death_link: false
   GameB:
     mode: easy                                                           *)
NumericKeyText ==
  Text(FALSE, Block(<<
    Pair(Key("GameA"), Block(<<
      Pair(Key("hint_cost"), Block(<<
        Pair(Key("a"), Num("0")),
        Pair(Scalar(JNum("10"), " rare", NoComment), Num("50"))>>)),
      Pair(Key("death_link"), Scalar(JBool("false"), NoComment, NoComment))>>)),
    Pair(Key("GameB"), Block(<<Pair(Key("mode"), Str("easy"))>>))>>))

(* name: Player1
   notes: [x]
   version: 1
   GameA:                                                                 *)
LooseText ==
  Text(FALSE, Block(<<
    Pair(Key("name"), Str("Player1")),
    Pair(Key("notes"), YSeq(<<Str("x")>>, TRUE, NoComment, NoComment)),
    Pair(Key("version"), Num("1")),
    Pair(Key("GameA"), Scalar(JNull, NoComment, NoComment))>>))

(* name: Player1
   key: [unterminated                                                     *)
UnterminatedText ==
  Text(TRUE, Block(<<
    Pair(Key("name"), Str("Player1")),
    Pair(Key("key"), YSeq(<<Str("unterminated")>>, TRUE, NoComment, NoComment))>>))

\* the empty text
EmptyText == Text(FALSE, NullContents)

(* just a scalar                                                          *)
ScalarText == Text(FALSE, Str("just a scalar"))

(* - mode: easy
   - x                                                                    *)
SequenceText ==
  Text(FALSE, YSeq(<<Block(<<Pair(Key("mode"), Str("easy"))>>), Str("x")>>,
                   FALSE, NoComment, NoComment))

(* name: Player1
   # about
   description: mine
   GameA:
     mode: easy                                                           *)
ReorderedText ==
  Text(FALSE, Block(<<
    Pair(Key("name"), Str("Player1")),
    Pair(KeyC("description", " about"), Str("mine")),
    Pair(Key("GameA"), Block(<<Pair(Key("mode"), Str("easy"))>>))>>))

\* the texts a user loads
Texts ==
  {generateDefaultTemplate, CommentedText, BlockRootText, NumericKeyText,
   LooseText, UnterminatedText, EmptyText, ScalarText, SequenceText,
   ReorderedText}

WellFormed(text) == ~text.errors

(***************************************************************************)
(* Values the editors of src/components/OptionEditors.tsx hand to onChange.*)
(***************************************************************************)
\* member names a user gives the entries of a weighted option
MemberKeys == {"a", "c", "10"}
\* slider positions
Weights == {"10", "0"}

RECURSIVE ObjectOf(_, _)
\* the object that gets the properties of f, one assignment each
ObjectOf(f, keys) ==
  IF keys = {} THEN << >>
  ELSE LET k == CHOOSE x \in keys : TRUE
       IN SetProp(ObjectOf(f, keys \ {k}), k, JNum(f[k]))

\* { [key: string]: number } with at most MaxMembers members
WeightedValues ==
  {JObj(ObjectOf(f, DOMAIN f)) :
     f \in UNION {[ks -> Weights] :
                    ks \in {x \in SUBSET MemberKeys : Cardinality(x) <= MaxMembers}}}

StringValues == {JStr("hard"), JStr("")}
NumberValues == {JNum("7"), JNum("0")}
BooleanValues == {JBool("true"), JBool("false")}
ArrayValues == {JArr(<< >>), JArr(<<JStr("z")>>), JArr(<<JStr("x"), JStr("")>>)}
\* what JSON.parse of the object editor's text area can give
JsonValues ==
  {JNull, JStr("hard"), JNum("7"), JArr(<<JStr("z")>>),
   JObj(<<[k |-> "a", v |-> JNum("10")]>>),
   JObj(<<[k |-> "version", v |-> JStr("0.5.0")]>>),
   JObj(<<[k |-> "a", v |-> JObj(<<[k |-> "c", v |-> JNum("0")]>>)]>>)}

\* OptionEditor: the editor is chosen by the option's type
EditorValues(option) ==
  CASE option.type = "string" -> StringValues
    [] option.type = "number" -> NumberValues
    [] option.type = "boolean" -> BooleanValues
    [] option.type = "array" -> ArrayValues
    [] option.type = "weighted" -> WeightedValues
    [] option.type = "object" -> JsonValues

(***************************************************************************)
(* The session of src/App.tsx.                                             *)
(***************************************************************************)
VARIABLES
  rootOptions,       \* useState<ParsedOption[]>
  gameOptions,       \* useState<{[gameName]: ParsedOption[]}>, in property order
  originalDocument,  \* useState<Document | undefined>
  originalFile,      \* useState<File | undefined>
  fileHandle,        \* useState<any>: the handle the file picker gave
  hasTemplate,       \* useState(false)
  error,             \* useState<string>('')
  edits,             \* option updates since the last load
  loads,             \* where each call of handleLoadFile in flight stands
  saves,             \* where each call of handleSaveAs in flight stands
  call               \* the last call of a function of yamlParser.ts or of a
                     \* file handle

vars ==
  <<rootOptions, gameOptions, originalDocument, originalFile, fileHandle,
    hasTemplate, error, edits, loads, saves, call>>

NoCall == [fn |-> "none"]

Init ==
  /\ rootOptions = << >>
  /\ gameOptions = << >>
  /\ originalDocument = Undefined
  /\ originalFile = Undefined
  /\ fileHandle = Undefined
  /\ hasTemplate = FALSE
  /\ error = ""
  /\ edits = 0
  /\ loads = {}
  /\ saves = {}
  /\ call = NoCall

\* validateYaml and parseYamlTemplate of each text (evaluated once)
Validations == [content \in Texts |-> validateYaml(content)]
Templates == [content \in Texts |-> parseYamlTemplate(content)]

\* a File and the handle of a file, known by the text the file holds
FileOf(content) == [file |-> content]
HandleOf(content) == [handle |-> content]

\* a file picker is a modal dialog: no click reaches the page while one is
\* open
PickerClosed ==
  /\ [at |-> "picker"] \notin loads
  /\ \A save \in saves : save.at # "picker"

\* a load that stores the new option lists with the document of the load
\* before it
LoadContentKeepingDocument(content, validate, prefix, file, handle) ==
  LET validation == Validations[content]
      parsed == Templates[content]
  IN IF validate /\ ~validation.valid
     THEN /\ error' = "Invalid YAML"
          /\ call' = [fn |-> "validateYaml", text |-> content, result |-> validation]
          /\ UNCHANGED <<rootOptions, gameOptions, originalDocument, originalFile,
                         fileHandle, hasTemplate, edits>>
     ELSE IF parsed.threw
     THEN /\ error' = prefix
          /\ call' = [fn |-> "parseYamlTemplate", text |-> content, result |-> parsed]
          /\ UNCHANGED <<rootOptions, gameOptions, originalDocument, originalFile,
                         fileHandle, hasTemplate, edits>>
     ELSE /\ rootOptions' = parsed.rootOptions
          /\ gameOptions' = parsed.gameOptions
          /\ originalDocument' =
               IF hasTemplate THEN originalDocument ELSE parsed.document
          /\ originalFile' = file
          /\ fileHandle' = handle
          /\ hasTemplate' = TRUE
          /\ error' = ""
          /\ edits' = 0
          /\ call' = [fn |-> "parseYamlTemplate", text |-> content, result |-> parsed]

\* a load that empties the session before it parses
LoadContentClearing(content, validate, prefix, file, handle) ==
  LET validation == Validations[content]
      parsed == Templates[content]
  IN IF validate /\ ~validation.valid
     THEN /\ error' = "Invalid YAML"
          /\ call' = [fn |-> "validateYaml", text |-> content, result |-> validation]
          /\ UNCHANGED <<rootOptions, gameOptions, originalDocument, originalFile,
                         fileHandle, hasTemplate, edits>>
     ELSE IF parsed.threw
     THEN /\ error' = prefix
          /\ call' = [fn |-> "parseYamlTemplate", text |-> content, result |-> parsed]
          /\ rootOptions' = << >>
          /\ gameOptions' = << >>
          /\ hasTemplate' = FALSE
          /\ UNCHANGED <<originalDocument, originalFile, fileHandle, edits>>
     ELSE /\ rootOptions' = parsed.rootOptions
          /\ gameOptions' = parsed.gameOptions
          /\ originalDocument' = parsed.document
          /\ originalFile' = file
          /\ fileHandle' = handle
          /\ hasTemplate' = TRUE
          /\ error' = ""
          /\ edits' = 0
          /\ call' = [fn |-> "parseYamlTemplate", text |-> content, result |-> parsed]

\* what the three load handlers do with a text once they hold it: file and
\* handle are what the handler stores with a template
LoadContent(content, validate, prefix, file, handle) ==
  LET validation == Validations[content]
      parsed == Templates[content]
  IN IF validate /\ ~validation.valid
     THEN /\ error' = "Invalid YAML"
          /\ call' = [fn |-> "validateYaml", text |-> content, result |-> validation]
          /\ UNCHANGED <<rootOptions, gameOptions, originalDocument, originalFile,
                         fileHandle, hasTemplate, edits>>
     ELSE IF parsed.threw
     THEN /\ error' = prefix
          /\ call' = [fn |-> "parseYamlTemplate", text |-> content, result |-> parsed]
          /\ UNCHANGED <<rootOptions, gameOptions, originalDocument, originalFile,
                         fileHandle, hasTemplate, edits>>
     ELSE /\ rootOptions' = parsed.rootOptions
          /\ gameOptions' = parsed.gameOptions
          /\ originalDocument' = parsed.document
          /\ originalFile' = file
          /\ fileHandle' = handle
          /\ hasTemplate' = TRUE
          /\ error' = ""
          /\ edits' = 0
          /\ call' = [fn |-> "parseYamlTemplate", text |-> content, result |-> parsed]

\* the change event of the file input starts a FileReader and sets no
\* state: the step is the reader's onload with the text of the file chosen
handleFileUpload ==
  /\ \E content \in Texts :
       LoadContent(content, TRUE, "Error parsing file", FileOf(content), fileHandle)
  /\ UNCHANGED <<loads, saves>>

handleLoadDefault ==
  /\ PickerClosed
  /\ LoadContent(generateDefaultTemplate, FALSE, "Error loading default template",
                 Undefined, Undefined)
  /\ UNCHANGED <<loads, saves>>

\* the files a user opens through the file picker
PickerTexts == {ReorderedText, EmptyText}

\* the click on Load: without the File System Access API an error message,
\* else the call waits at showOpenFilePicker
handleLoadFile ==
  /\ PickerClosed
  /\ Cardinality(loads) < MaxLoads
  /\ \/ /\ error' = "File System Access API not supported"
        /\ UNCHANGED <<loads, saves>>
     \/ /\ loads' = loads \cup {[at |-> "picker"]}
        /\ UNCHANGED error
  /\ call' = NoCall
  /\ UNCHANGED <<rootOptions, gameOptions, originalDocument, originalFile,
                 fileHandle, hasTemplate, edits, saves>>

\* showOpenFilePicker resolves with the handle of the file chosen: the call
\* waits at handle.getFile() and file.text()
handleLoadFilePicked ==
  /\ [at |-> "picker"] \in loads
  /\ \E content \in PickerTexts :
       loads' = (loads \ {[at |-> "picker"]}) \cup {[at |-> "text", file |-> content]}
  /\ call' = NoCall
  /\ UNCHANGED <<rootOptions, gameOptions, originalDocument, originalFile,
                 fileHandle, hasTemplate, error, edits, saves>>

\* showOpenFilePicker rejects: with AbortError when the user cancels, which
\* returns at once, with any other error, which is reported
handleLoadFileCancelled ==
  /\ [at |-> "picker"] \in loads
  /\ loads' = loads \ {[at |-> "picker"]}
  /\ \/ UNCHANGED error
     \/ error' = "Error loading file"
  /\ call' = NoCall
  /\ UNCHANGED <<rootOptions, gameOptions, originalDocument, originalFile,
                 fileHandle, hasTemplate, edits, saves>>

\* file.text() resolves: the rest of handleLoadFile runs in one piece; or
\* getFile() or text() rejects and the catch reports it
handleLoadFileRead ==
  \E load \in loads :
    /\ load.at = "text"
    /\ loads' = loads \ {load}
    /\ UNCHANGED saves
    /\ \/ LoadContent(load.file, TRUE, "Error loading file",
                       FileOf(load.file), HandleOf(load.file))
       \/ /\ error' = "Error loading file"
          /\ call' = NoCall
          /\ UNCHANGED <<rootOptions, gameOptions, originalDocument, originalFile,
                         fileHandle, hasTemplate, edits>>

\* updateRootOption deriving the edit-kind of the option from its new value
updateRootOptionRetyped ==
  /\ hasTemplate
  /\ PickerClosed
  /\ edits < MaxEdits
  /\ \E index \in 1..Len(rootOptions) :
       \E value \in EditorValues(rootOptions[index]) :
         rootOptions' = [rootOptions EXCEPT ![index].value = value,
                                            ![index].type = determineType(value)]
  /\ edits' = edits + 1
  /\ call' = NoCall
  /\ UNCHANGED <<gameOptions, originalDocument, originalFile, fileHandle,
                 hasTemplate, error, loads, saves>>

updateRootOption ==
  /\ hasTemplate
  /\ PickerClosed
  /\ edits < MaxEdits
  /\ \E index \in 1..Len(rootOptions) :
       \E value \in EditorValues(rootOptions[index]) :
         rootOptions' = [rootOptions EXCEPT ![index].value = value]
  /\ edits' = edits + 1
  /\ call' = NoCall
  /\ UNCHANGED <<gameOptions, originalDocument, originalFile, fileHandle,
                 hasTemplate, error, loads, saves>>

updateGameOption ==
  /\ hasTemplate
  /\ PickerClosed
  /\ edits < MaxEdits
  /\ \E g \in 1..Len(gameOptions) :
       \E index \in 1..Len(gameOptions[g].v) :
         \E value \in EditorValues(gameOptions[g].v[index]) :
           gameOptions' = [gameOptions EXCEPT ![g].v[index].value = value]
  /\ edits' = edits + 1
  /\ call' = NoCall
  /\ UNCHANGED <<rootOptions, originalDocument, originalFile, fileHandle,
                 hasTemplate, error, loads, saves>>

removeGame ==
  /\ hasTemplate
  /\ PickerClosed
  /\ \E g \in 1..Len(gameOptions) :
       gameOptions' = [i \in 1..(Len(gameOptions) - 1) |->
                         IF i < g THEN gameOptions[i] ELSE gameOptions[i + 1]]
  /\ call' = NoCall
  /\ UNCHANGED <<rootOptions, originalDocument, originalFile, fileHandle,
                 hasTemplate, error, edits, loads, saves>>

\* the preview is rendered anew with every state of the session
getPreviewContent ==
  /\ hasTemplate
  /\ call' = [fn |-> "exportToYaml", rootOptions |-> rootOptions,
              gameOptions |-> gameOptions, originalDocument |-> originalDocument,
              result |-> exportToYaml(rootOptions, gameOptions, originalDocument)]
  /\ originalDocument' =
       DocumentAfterExport(rootOptions, gameOptions, originalDocument)
  /\ UNCHANGED <<rootOptions, gameOptions, originalFile, fileHandle, hasTemplate,
                 error, edits, loads, saves>>

Next ==
  \/ handleFileUpload
  \/ handleLoadDefault
  \/ updateRootOption
  \/ updateGameOption
  \/ removeGame
  \/ getPreviewContent

Spec == Init /\ [][Next]_vars

(***************************************************************************)
(* The session with the file picker: handleLoadFile is an async function,  *)
(* and between its awaits every other handler can run.                     *)
(***************************************************************************)
\* the values typed into the editors in such a session: one of each kind
PickerSessionValues ==
  {JStr("hard"), JNum("7"), JBool("true"), JArr(<<JStr("z")>>),
   JObj(<<[k |-> "a", v |-> JNum("10")]>>)}

editRootOption ==
  /\ updateRootOption
  /\ \A i \in 1..Len(rootOptions) :
       rootOptions'[i].value \in {rootOptions[i].value} \cup PickerSessionValues

editGameOption ==
  /\ updateGameOption
  /\ \A g \in 1..Len(gameOptions) :
       \A i \in 1..Len(gameOptions[g].v) :
         gameOptions'[g].v[i].value
           \in {gameOptions[g].v[i].value} \cup PickerSessionValues

AppNext ==
  \/ handleFileUpload
  \/ handleLoadDefault
  \/ handleLoadFile
  \/ handleLoadFilePicked
  \/ handleLoadFileCancelled
  \/ handleLoadFileRead
  \/ editRootOption
  \/ editGameOption
  \/ removeGame
  \/ getPreviewContent

AppSpec == Init /\ [][AppNext]_vars

(***************************************************************************)
(* The session that saves: handleSave and handleSaveAs are async           *)
(* functions.  Both export the option lists at the click, so the text      *)
(* written is the text of the click whatever runs between their awaits.    *)
(***************************************************************************)
\* the handle the save picker gives, known by the document whose export
\* the file receives
SavedHandleOf(document) == [handle |-> "saved", from |-> document]

\* the call of exportToYaml both handlers start with
ExportCall ==
  [fn |-> "exportToYaml", rootOptions |-> rootOptions,
   gameOptions |-> gameOptions, originalDocument |-> originalDocument,
   result |-> exportToYaml(rootOptions, gameOptions, originalDocument)]

\* writable.write(yamlContent) through a handle
WriteCall(handle, text, document) ==
  [fn |-> "write", handle |-> handle, text |-> text, originalDocument |-> document]

\* the click on Save: the handle and the text are those of the click, and
\* the awaits of createWritable, write and close only delay the message
handleSave ==
  /\ hasTemplate
  /\ PickerClosed
  /\ \E exported \in {ExportCall} :
       LET yamlContent == exported.result
       IN IF yamlContent.threw
          THEN /\ error' = "Error saving YAML"
               /\ call' = exported
          ELSE IF fileHandle = Undefined
          THEN /\ error' = "No file handle available"
               /\ call' = exported
          ELSE \/ /\ error' = ""
                  /\ call' = WriteCall(fileHandle, yamlContent.text, originalDocument)
               \/ /\ error' \in {"Permission denied", "Could not save file"}
                  /\ call' = exported
  /\ originalDocument' =
       DocumentAfterExport(rootOptions, gameOptions, originalDocument)
  /\ UNCHANGED <<rootOptions, gameOptions, originalFile, fileHandle, hasTemplate,
                 edits, loads, saves>>

\* the click on Save As: the text is exported, and without the File System
\* Access API an error message, else the call waits at showSaveFilePicker
handleSaveAs ==
  /\ hasTemplate
  /\ PickerClosed
  /\ Cardinality(saves) < MaxSaves
  /\ \E exported \in {ExportCall} :
       LET yamlContent == exported.result
       IN /\ IF yamlContent.threw
             THEN /\ error' = "Error saving YAML"
                  /\ UNCHANGED saves
             ELSE \/ /\ error' = "File System Access API not supported"
                     /\ UNCHANGED saves
                  \/ /\ saves' = saves \cup {[at |-> "picker", text |-> yamlContent.text,
                                              document |-> originalDocument]}
                     /\ UNCHANGED error
          /\ call' = exported
  /\ originalDocument' =
       DocumentAfterExport(rootOptions, gameOptions, originalDocument)
  /\ UNCHANGED <<rootOptions, gameOptions, originalFile, fileHandle, hasTemplate,
                 edits, loads>>

\* showSaveFilePicker resolves with the handle of the file to write: the call
\* waits at createWritable, write and close
handleSaveAsPicked ==
  /\ \E save \in saves :
       /\ save.at = "picker"
       /\ saves' = (saves \ {save}) \cup {[save EXCEPT !.at = "write"]}
  /\ call' = NoCall
  /\ UNCHANGED <<rootOptions, gameOptions, originalDocument, originalFile,
                 fileHandle, hasTemplate, error, edits, loads>>

\* showSaveFilePicker rejects: with AbortError when the user cancels, which
\* returns at once, with any other error, which is reported
handleSaveAsCancelled ==
  /\ \E save \in saves :
       /\ save.at = "picker"
       /\ saves' = saves \ {save}
  /\ \/ UNCHANGED error
     \/ error' \in {"Permission denied", "Could not save file"}
  /\ call' = NoCall
  /\ UNCHANGED <<rootOptions, gameOptions, originalDocument, originalFile,
                 fileHandle, hasTemplate, edits, loads>>

\* close() resolves: the rest of handleSaveAs stores the handle and a File of
\* the text written; or createWritable, write or close rejects and the catch
\* reports it
handleSaveAsWritten ==
  \E save \in saves :
    /\ save.at = "write"
    /\ saves' = saves \ {save}
    /\ \/ /\ fileHandle' = SavedHandleOf(save.document)
          /\ originalFile' = FileOf(save.text)
          /\ error' = ""
          /\ call' = WriteCall(SavedHandleOf(save.document), save.text, save.document)
       \/ /\ error' \in {"Permission denied", "Could not save file"}
          /\ call' = NoCall
          /\ UNCHANGED <<originalFile, fileHandle>>
    /\ UNCHANGED <<rootOptions, gameOptions, originalDocument, hasTemplate, edits,
                   loads>>

SaveNext ==
  \/ handleFileUpload
  \/ handleLoadDefault
  \/ handleLoadFile
  \/ handleLoadFilePicked
  \/ handleLoadFileCancelled
  \/ handleLoadFileRead
  \/ handleSave
  \/ handleSaveAs
  \/ handleSaveAsPicked
  \/ handleSaveAsCancelled
  \/ handleSaveAsWritten

SaveSpec == Init /\ [][SaveNext]_vars

(***************************************************************************)
(* The exported functions of yamlParser.ts called directly, with any       *)
(* arguments: option lists as a parse returns them with at most one value  *)
(* replaced by any value, and any document or none.  A behaviour is one    *)
(* call.                                                                   *)
(***************************************************************************)
\* values a caller can put into an option, editor or not
AnyValues ==
  StringValues \cup NumberValues \cup BooleanValues \cup ArrayValues
    \cup WeightedValues \cup JsonValues \cup {Undefined, JFunc}

\* values handed to determineType
ClassifiedValues ==
  AnyValues \cup
    {JObj(<<[k |-> "x", v |-> JNum("1")], [k |-> "y", v |-> JStr("z")]>>),
     JObj(<<[k |-> "x", v |-> JNull]>>),
     JArr(<<JNum("1"), JNum("7")>>)}

\* the texts parseYamlTemplate returns a template for
ParsedTexts == {text \in Texts : ~Templates[text].threw}

\* the places of the options of a template: <<0, i>> a root option,
\* <<g, i>> an option of section g
Places(template) ==
  {<<0, i>> : i \in 1..Len(template.rootOptions)} \cup
  UNION {{<<g, i>> : i \in 1..Len(template.gameOptions[g].v)} :
           g \in 1..Len(template.gameOptions)}

callExportToYaml ==
  /\ call = NoCall
  /\ \E text \in ParsedTexts :
       \E document \in {Undefined} \cup {parseDocument(t) : t \in Texts} :
         LET template == Templates[text]
         IN \/ call' = [fn |-> "exportToYaml",
                        rootOptions |-> template.rootOptions,
                        gameOptions |-> template.gameOptions,
                        originalDocument |-> document,
                        result |-> exportToYaml(template.rootOptions,
                                                template.gameOptions, document)]
            \/ \E place \in Places(template) :
                 \E value \in AnyValues :
                   LET root == IF place[1] = 0
                               THEN [template.rootOptions EXCEPT ![place[2]].value = value]
                               ELSE template.rootOptions
                       games == IF place[1] = 0 THEN template.gameOptions
                                ELSE [template.gameOptions
                                        EXCEPT ![place[1]].v[place[2]].value = value]
                   IN call' = [fn |-> "exportToYaml", rootOptions |-> root,
                               gameOptions |-> games, originalDocument |-> document,
                               result |-> exportToYaml(root, games, document)]
  /\ UNCHANGED <<rootOptions, gameOptions, originalDocument, originalFile,
                 fileHandle, hasTemplate, error, edits, loads, saves>>

callValidateYaml ==
  /\ call = NoCall
  /\ \E text \in Texts :
       call' = [fn |-> "validateYaml", text |-> text, result |-> validateYaml(text)]
  /\ UNCHANGED <<rootOptions, gameOptions, originalDocument, originalFile,
                 fileHandle, hasTemplate, error, edits, loads, saves>>

callParseYamlTemplate ==
  /\ call = NoCall
  /\ \E text \in Texts :
       call' = [fn |-> "parseYamlTemplate", text |-> text,
                result |-> parseYamlTemplate(text)]
  /\ UNCHANGED <<rootOptions, gameOptions, originalDocument, originalFile,
                 fileHandle, hasTemplate, error, edits, loads, saves>>

callDetermineType ==
  /\ call = NoCall
  /\ \E value \in ClassifiedValues :
       call' = [fn |-> "determineType", value |-> value, result |-> determineType(value)]
  /\ UNCHANGED <<rootOptions, gameOptions, originalDocument, originalFile,
                 fileHandle, hasTemplate, error, edits, loads, saves>>

ApiNext ==
  \/ callExportToYaml
  \/ callValidateYaml
  \/ callParseYamlTemplate
  \/ callDetermineType

ApiSpec == Init /\ [][ApiNext]_vars

(***************************************************************************)
(* What a text decodes to, and what an export call was given.              *)
(***************************************************************************)
\* the decoded value of a text
Decode(text) == toJSON(parseDocument(text))

RECURSIVE IsDecodedValue(_)
\* a decoded value: a string, a number, a boolean, null, a sequence or a
\* mapping of decoded values
IsDecodedValue(value) ==
  CASE value.t \in {"string", "number", "boolean", "null"} -> TRUE
    [] value.t = "array" ->
         \A i \in 1..Len(value.items) : IsDecodedValue(value.items[i])
    [] value.t = "object" ->
         \A i \in 1..Len(value.items) : IsDecodedValue(value.items[i].v)
    [] OTHER -> FALSE

\* every option of the call holds a decoded value
DecodedOptions(c) ==
  /\ \A i \in 1..Len(c.rootOptions) : IsDecodedValue(c.rootOptions[i].value)
  /\ \A g \in 1..Len(c.gameOptions) :
       \A i \in 1..Len(c.gameOptions[g].v) :
         IsDecodedValue(c.gameOptions[g].v[i].value)

\* the property names of an object
KeySet(props) == {props[i].k : i \in 1..Len(props)}

(***************************************************************************)
(* C6: exportToYaml never raises to its caller: whatever the option lists  *)
(* and the retained document, values that cannot be made a node included,  *)
(* the call returns a string.                                              *)
(***************************************************************************)
C6_ExportNeverRaises ==
  call.fn = "exportToYaml" => ~call.result.threw

(***************************************************************************)
(* C7: an export without a retained document decodes to a mapping with     *)
(* exactly one entry per root option (its key to its current value) and    *)
(* one entry per section name, each section a mapping from its option keys *)
(* to their current values.                                                *)
(***************************************************************************)
C7_FallbackRegeneration ==
  (call.fn = "exportToYaml" /\ call.originalDocument = Undefined
     /\ DecodedOptions(call)) =>
    /\ ~call.result.threw
    /\ LET decoded == Decode(call.result.text)
       IN /\ decoded.t = "object"
          /\ KeySet(decoded.items) =
               {call.rootOptions[i].key : i \in 1..Len(call.rootOptions)} \cup
               {call.gameOptions[g].k : g \in 1..Len(call.gameOptions)}
          /\ \A i \in 1..Len(call.rootOptions) :
               GetProp(decoded.items, call.rootOptions[i].key) =
                 call.rootOptions[i].value
          /\ \A g \in 1..Len(call.gameOptions) :
               LET section == GetProp(decoded.items, call.gameOptions[g].k)
                   options == call.gameOptions[g].v
               IN /\ section.t = "object"
                  /\ KeySet(section.items) = {options[i].key : i \in 1..Len(options)}
                  /\ \A i \in 1..Len(options) :
                       GetProp(section.items, options[i].key) = options[i].value

\* a regeneration of root options and of a section with an edited option
C7_Witness ==
  /\ call.fn = "exportToYaml"
  /\ call.originalDocument = Undefined
  /\ DecodedOptions(call)
  /\ ~call.result.threw
  /\ call.result.path = "fallback"
  /\ Len(call.rootOptions) > 0
  /\ \E g \in 1..Len(call.gameOptions) :
       \E i \in 1..Len(call.gameOptions[g].v) :
         call.gameOptions[g].v[i].value # call.gameOptions[g].v[i].originalValue

(***************************************************************************)
(* C8: validateYaml decides well-formedness: valid for a well-formed text, *)
(* not valid with a non-empty error message for any other text.            *)
(***************************************************************************)
C8_ValidateDecides ==
  call.fn = "validateYaml" =>
    /\ call.result.valid <=> WellFormed(call.text)
    /\ ~call.result.valid => call.result.error # ""

(***************************************************************************)
(* C9: parseYamlTemplate raises a syntax error exactly when validateYaml   *)
(* rejects the text: it raises on every text that is not well-formed and   *)
(* raises nothing on a well-formed text.                                   *)
(***************************************************************************)
C9_ParseFailsWithValidate ==
  call.fn = "parseYamlTemplate" =>
    /\ (call.result.threw /\ call.result.error = "SyntaxError")
         <=> ~validateYaml(call.text).valid
    /\ ~WellFormed(call.text) => call.result.threw
    /\ WellFormed(call.text) => ~call.result.threw

(***************************************************************************)
(* C10: determineType gives one edit-kind by the priority order: sequence  *)
(* array; mapping weighted when every member value is a number (the empty  *)
(* mapping too), else object; boolean; number; anything else string.       *)
(***************************************************************************)
C10_ClassificationRule ==
  call.fn = "determineType" =>
    LET value == call.value
        numeric == {i \in 1..Len(value.items) : value.items[i].v.t = "number"}
    IN /\ call.result \in {"string", "number", "boolean", "array", "weighted", "object"}
       /\ value.t = "array" => call.result = "array"
       /\ (value.t = "object" /\ numeric = 1..Len(value.items))
            => call.result = "weighted"
       /\ (value.t = "object" /\ numeric # 1..Len(value.items))
            => call.result = "object"
       /\ value.t = "boolean" => call.result = "boolean"
       /\ value.t = "number" => call.result = "number"
       /\ value.t \notin {"array", "object", "boolean", "number"}
            => call.result = "string"

\* the empty mapping classified
C10_Witness ==
  /\ call.fn = "determineType"
  /\ call.value = JObj(<< >>)
  /\ call.result = "weighted"

(***************************************************************************)
(* What a surgical merge was given and what it wrote.                      *)
(***************************************************************************)
\* the last call was an export that returned the updated clone
MergeExport ==
  /\ call.fn = "exportToYaml"
  /\ ~call.result.threw
  /\ call.result.path = "merge"

\* the tree of the retained document and the tree of the text written
Original == call.originalDocument.contents
Output == parseDocument(call.result.text).contents

\* the place of the pair of a mapping node whose key decodes to k, or 0
PairIndex(map, k) ==
  LET hits == {i \in 1..Len(map.items) : KeyString(map.items[i].key) = k}
  IN IF hits = {} THEN 0 ELSE CHOOSE i \in hits : \A j \in hits : i <= j

\* the mapping node of a section in a tree: <<>> stands for the top level
SectionNode(tree, section) ==
  IF section = << >> THEN tree
  ELSE IF PairIndex(tree, section[1]) = 0 THEN Undefined
  ELSE tree.items[PairIndex(tree, section[1])].value

\* the option key is a pair of its section's mapping in the tree
HasOption(tree, section, key) ==
  /\ isMap(tree)
  /\ SectionNode(tree, section) # Undefined
  /\ isMap(SectionNode(tree, section))
  /\ PairIndex(SectionNode(tree, section), key) # 0

OptionIndex(tree, section, key) == PairIndex(SectionNode(tree, section), key)
OptionPair(tree, section, key) ==
  SectionNode(tree, section).items[OptionIndex(tree, section, key)]

\* the options of the call with the section each belongs to
CallOptions ==
  {[section |-> << >>, option |-> call.rootOptions[i]] :
     i \in 1..Len(call.rootOptions)} \cup
  UNION {{[section |-> <<call.gameOptions[g].k>>, option |-> call.gameOptions[g].v[i]] :
            i \in 1..Len(call.gameOptions[g].v)} : g \in 1..Len(call.gameOptions)}

Changed(o) == o.option.value # o.option.originalValue

\* the option lists of the call are those the parse of the retained text gave
Unmodified ==
  LET parsed == parseYamlTemplate(Text(call.originalDocument.errors, Original))
  IN /\ ~parsed.threw
     /\ call.rootOptions = parsed.rootOptions
     /\ call.gameOptions = parsed.gameOptions

RECURSIVE KeyComments(_, _)
\* the comments attached to the keys of a tree, each with the path of its key
KeyComments(node, path) ==
  CASE node.kind = "map" ->
         UNION {LET here == Append(path, KeyString(node.items[i].key))
                IN (IF node.items[i].key.commentBefore = NoComment THEN {}
                    ELSE {<<here, node.items[i].key.commentBefore>>})
                   \cup KeyComments(node.items[i].value, here) :
                i \in 1..Len(node.items)}
    [] node.kind = "seq" ->
         UNION {KeyComments(node.items[i], Append(path, IndexStr(i))) :
                  i \in 1..Len(node.items)}
    [] OTHER -> {}

(***************************************************************************)
(* C1: a parse followed at once by an export of the unmodified option      *)
(* lists gives a text that decodes to the value the original text decodes  *)
(* to, with every comment attached to a key still attached to that key.    *)
(***************************************************************************)
C1_NoOpRoundTrip ==
  (call.fn = "exportToYaml" /\ call.originalDocument # Undefined
     /\ ~call.originalDocument.errors /\ isMap(Original) /\ Unmodified) =>
    /\ ~call.result.threw
    /\ toJS(Output) = toJS(Original)
    /\ KeyComments(Output, << >>) = KeyComments(Original, << >>)

(***************************************************************************)
(* C2: in a surgical merge an option whose value is the value it was       *)
(* parsed with keeps the value subtree of the retained tree, its style and *)
(* the comments on it.                                                     *)
(***************************************************************************)
C2_UntouchedNotRewritten ==
  MergeExport =>
    \A o \in CallOptions :
      (~Changed(o) /\ HasOption(Original, o.section, o.option.key)) =>
        /\ HasOption(Output, o.section, o.option.key)
        /\ OptionPair(Output, o.section, o.option.key).value =
             OptionPair(Original, o.section, o.option.key).value

(***************************************************************************)
(* C3: after the value of exactly one option of a section with two or more *)
(* options was changed, a surgical merge leaves every other option of the  *)
(* section with its comment, its decoded value and its place among its     *)
(* siblings.                                                               *)
(***************************************************************************)
C3_OtherOptionsKept ==
  MergeExport =>
    \A e \in CallOptions :
      (e.section # << >> /\ {c \in CallOptions : Changed(c)} = {e}) =>
        \A o \in CallOptions :
          (o.section = e.section /\ o # e
             /\ HasOption(Original, o.section, o.option.key)) =>
            /\ HasOption(Output, o.section, o.option.key)
            /\ OptionIndex(Output, o.section, o.option.key) =
                 OptionIndex(Original, o.section, o.option.key)
            /\ toJS(OptionPair(Output, o.section, o.option.key).value) =
                 toJS(OptionPair(Original, o.section, o.option.key).value)
            /\ OptionPair(Output, o.section, o.option.key).key =
                 OptionPair(Original, o.section, o.option.key).key
            /\ getComment([contents |-> Output], o.option.key, JStr(o.section[1])) =
                 getComment([contents |-> Original], o.option.key, JStr(o.section[1]))

(***************************************************************************)
(* C4: a weighted option, root or section, whose value was edited keeps    *)
(* the style of its mapping through a surgical merge: flow stays flow,     *)
(* block stays block.                                                      *)
(***************************************************************************)
C4_FlowStylePreserved ==
  MergeExport =>
    \A o \in CallOptions :
      (o.option.type = "weighted" /\ Changed(o)
         /\ determineType(o.option.value) = "weighted"
         /\ o.option.value.items # << >>
         /\ HasOption(Original, o.section, o.option.key)
         /\ isMap(OptionPair(Original, o.section, o.option.key).value)) =>
        /\ HasOption(Output, o.section, o.option.key)
        /\ isMap(OptionPair(Output, o.section, o.option.key).value)
        /\ OptionPair(Output, o.section, o.option.key).value.flow =
             OptionPair(Original, o.section, o.option.key).value.flow

(***************************************************************************)
(* C5: when the new value of a section option is a mapping and its node in *)
(* the retained tree is a mapping, the merged node has exactly the keys of *)
(* the new value; a member present before and after keeps its key node and *)
(* comment and takes the new value; a member only in the new value is a    *)
(* new entry without comment; a member only in the old mapping is gone.    *)
(***************************************************************************)
C5_MappingReconciled ==
  MergeExport =>
    \A o \in CallOptions :
      (o.section # << >> /\ o.option.value.t = "object"
         /\ HasOption(Original, o.section, o.option.key)
         /\ isMap(OptionPair(Original, o.section, o.option.key).value)) =>
        /\ HasOption(Output, o.section, o.option.key)
        /\ LET old == OptionPair(Original, o.section, o.option.key).value
               new == OptionPair(Output, o.section, o.option.key).value
               props == o.option.value.items
           IN /\ isMap(new)
              /\ Len(new.items) = Len(props)
              /\ {KeyString(new.items[i].key) : i \in 1..Len(new.items)} = KeySet(props)
              /\ \A i \in 1..Len(new.items) :
                   LET k == KeyString(new.items[i].key)
                   IN /\ toJS(new.items[i].value) = GetProp(props, k)
                      /\ IF PairIndex(old, k) # 0
                         THEN new.items[i].key = old.items[PairIndex(old, k)].key
                         ELSE new.items[i].key.commentBefore = NoComment

(***************************************************************************)
(* What a parse was given and what it returned.                            *)
(***************************************************************************)
\* the last call was a parse that returned a template
ParsedCall == call.fn = "parseYamlTemplate" /\ ~call.result.threw

\* the keys at the top level of a text, as property names
TopLevelKeys(text) ==
  IF isMap(text.contents)
  THEN {KeyString(text.contents.items[i].key) : i \in 1..Len(text.contents.items)}
  ELSE {}

\* the decoded value under a top-level key
TopLevelValue(text, k) == GetProp(OwnProps(Decode(text)), k)

RootOptionKeys(template) ==
  {template.rootOptions[i].key : i \in 1..Len(template.rootOptions)}
SectionNames(template) ==
  {template.gameOptions[g].k : g \in 1..Len(template.gameOptions)}

\* a top-level key that is neither a root option nor a section name
Skipped(template, k) ==
  k \notin RootOptionKeys(template) /\ k \notin SectionNames(template)

(***************************************************************************)
(* C11: every key at the top level of a parsed text is in exactly one of   *)
(* rootOptions (when it is description, name, game or requires) and the    *)
(* section names of gameOptions: never in both, never in neither.          *)
(***************************************************************************)
C11_TopLevelPartition ==
  ParsedCall =>
    \A k \in TopLevelKeys(call.text) :
      IF IsRootKey(k)
      THEN k \in RootOptionKeys(call.result) /\ k \notin SectionNames(call.result)
      ELSE k \in SectionNames(call.result) /\ k \notin RootOptionKeys(call.result)

(***************************************************************************)
(* C11 as the code has it: no key is in both; a recognized key is a root   *)
(* option; any other key whose value is a mapping is a section name; a key *)
(* in neither is an unrecognized key whose value is not a mapping.         *)
(***************************************************************************)
C11_PartitionOrSkipped ==
  ParsedCall =>
    \A k \in TopLevelKeys(call.text) :
      /\ ~(k \in RootOptionKeys(call.result) /\ k \in SectionNames(call.result))
      /\ IsRootKey(k) => k \in RootOptionKeys(call.result)
      /\ (~IsRootKey(k) /\ TopLevelValue(call.text, k).t = "object")
           => k \in SectionNames(call.result)
      /\ Skipped(call.result, k)
           => ~IsRootKey(k) /\ TopLevelValue(call.text, k).t # "object"

\* a parse of a text with a recognized key and a key that is skipped
C11_Witness ==
  /\ ParsedCall
  /\ \E k \in TopLevelKeys(call.text) : k \in RootOptionKeys(call.result)
  /\ \E k \in TopLevelKeys(call.text) : Skipped(call.result, k)

(***************************************************************************)
(* C12: a top-level key outside the recognized root set is a section of    *)
(* gameOptions exactly when its decoded value is a mapping; a key whose    *)
(* value is a sequence, a scalar or null gives no section and no options.  *)
(***************************************************************************)
C12_SectionIffMapping ==
  ParsedCall =>
    \A k \in TopLevelKeys(call.text) :
      ~IsRootKey(k) =>
        (k \in SectionNames(call.result)
           <=> TopLevelValue(call.text, k).t = "object")

\* the place of key k in a list of options, or 0
OptionPos(options, k) ==
  LET hits == {i \in 1..Len(options) : options[i].key = k}
  IN IF hits = {} THEN 0 ELSE CHOOSE i \in hits : \A j \in hits : i <= j

\* the options of a list that are pairs of a mapping node stand in the list
\* in the order their pairs stand in the node
SameOrder(options, node) ==
  \A i, j \in 1..Len(options) :
    (PairIndex(node, options[i].key) # 0 /\ PairIndex(node, options[j].key) # 0) =>
      (i < j <=> PairIndex(node, options[i].key) < PairIndex(node, options[j].key))

\* the option lists of a template or of an export call follow a tree
ListsFollow(lists, tree) ==
  isMap(tree) =>
    /\ SameOrder(lists.rootOptions, tree)
    /\ \A g \in 1..Len(lists.gameOptions) :
         LET node == SectionNode(tree, <<lists.gameOptions[g].k>>)
         IN (node # Undefined /\ isMap(node))
              => SameOrder(lists.gameOptions[g].v, node)

(***************************************************************************)
(* C13: after a parse the keys of rootOptions and of every section's       *)
(* option list stand in the order they have in the source text, and an     *)
(* export writes the options in the order of the lists.                    *)
(***************************************************************************)
C13_OrderMirrorsDocument ==
  /\ ParsedCall => ListsFollow(call.result, call.text.contents)
  /\ (call.fn = "exportToYaml" /\ ~call.result.threw)
       => ListsFollow(call, Output)

\* the node a text holds where a fresh node for value was written
FreshNode(value) == Written(createNode(value), FALSE)

\* the top-level keys the section loop of the call looks for
CallSections == {call.gameOptions[g].k : g \in 1..Len(call.gameOptions)}
CallRootKeys == {call.rootOptions[i].key : i \in 1..Len(call.rootOptions)}

(***************************************************************************)
(* C17: in a surgical merge a root option whose key is the key of a        *)
(* top-level pair has only that pair's value replaced, by a node built     *)
(* from the option's current value (wholesale, a mapping value too), the   *)
(* key node with its comment staying; a root option with no such pair is   *)
(* not in the output.                                                      *)
(***************************************************************************)
C17_RootOptionMerge ==
  MergeExport =>
    /\ Len(Output.items) = Len(Original.items)
    /\ \A i \in 1..Len(Original.items) :
         LET k == KeyString(Original.items[i].key)
         IN /\ Output.items[i].key = Original.items[i].key
            /\ k \in CallRootKeys =>
                 Output.items[i].value =
                   FreshNode(call.rootOptions[OptionPos(call.rootOptions, k)].value)
            /\ (k \notin CallRootKeys /\ k \notin CallSections) =>
                 Output.items[i] = Original.items[i]
    /\ \A i \in 1..Len(call.rootOptions) :
         PairIndex(Original, call.rootOptions[i].key) = 0
           => PairIndex(Output, call.rootOptions[i].key) = 0

\* a merge that rewrote a commented root key's value with a mapping and
\* dropped a root option the tree has no pair for
C17_Witness ==
  /\ MergeExport
  /\ \E i \in 1..Len(call.rootOptions) :
       LET o == call.rootOptions[i]
       IN /\ PairIndex(Original, o.key) # 0
          /\ o.value.t = "object"
          /\ o.value # o.originalValue
  /\ \E i \in 1..Len(call.rootOptions) :
       /\ PairIndex(Original, call.rootOptions[i].key) # 0
       /\ Original.items[PairIndex(Original, call.rootOptions[i].key)]
            .key.commentBefore # NoComment
  /\ \E i \in 1..Len(call.rootOptions) :
       PairIndex(Original, call.rootOptions[i].key) = 0

\* the keys of a mapping node, as property names
NodeKeys(node) == {KeyString(node.items[i].key) : i \in 1..Len(node.items)}

\* the section of the call is a mapping in the tree
IsSectionOf(tree, name) ==
  /\ PairIndex(tree, name) # 0
  /\ isMap(SectionNode(tree, <<name>>))

(***************************************************************************)
(* C18: a surgical merge inserts nothing: a section of gameOptions that    *)
(* the retained tree lacks, or holds with a value that is not a mapping,   *)
(* and an option whose key its section lacks in the retained tree, are     *)
(* dropped; the output has no top-level key and no option key of a section *)
(* that the retained tree does not have.                                   *)
(***************************************************************************)
C18_NoInsertion ==
  MergeExport =>
    /\ NodeKeys(Output) \subseteq NodeKeys(Original)
    /\ \A g \in 1..Len(call.gameOptions) :
         LET name == call.gameOptions[g].k
             options == call.gameOptions[g].v
         IN IF IsSectionOf(Original, name)
            THEN /\ IsSectionOf(Output, name)
                 /\ NodeKeys(SectionNode(Output, <<name>>))
                      \subseteq NodeKeys(SectionNode(Original, <<name>>))
                 /\ \A i \in 1..Len(options) :
                      ~HasOption(Original, <<name>>, options[i].key)
                        => ~HasOption(Output, <<name>>, options[i].key)
            ELSE IF PairIndex(Original, name) = 0
                 THEN PairIndex(Output, name) = 0
                 ELSE name \notin CallRootKeys =>
                        Output.items[PairIndex(Output, name)] =
                          Original.items[PairIndex(Original, name)]

\* a merge given a section the tree lacks, a section the tree holds as a
\* scalar or a section with an option the tree lacks
C18_Witness ==
  /\ MergeExport
  /\ \/ \E g \in 1..Len(call.gameOptions) :
          /\ Len(call.gameOptions[g].v) > 0
          /\ PairIndex(Original, call.gameOptions[g].k) = 0
          /\ \E h \in 1..Len(call.gameOptions) :
               /\ IsSectionOf(Original, call.gameOptions[h].k)
               /\ \E i \in 1..Len(call.gameOptions[h].v) :
                    ~HasOption(Original, <<call.gameOptions[h].k>>,
                               call.gameOptions[h].v[i].key)
     \/ \E g \in 1..Len(call.gameOptions) :
          /\ Len(call.gameOptions[g].v) > 0
          /\ PairIndex(Original, call.gameOptions[g].k) # 0
          /\ ~IsSectionOf(Original, call.gameOptions[g].k)

\* the last call was an export whose surgical merge raised
MergeRaised ==
  /\ call.fn = "exportToYaml"
  /\ call.originalDocument # Undefined
  /\ isMap(call.originalDocument.contents)
  /\ SurgicalMerge(call.rootOptions, call.gameOptions, call.originalDocument).threw

(***************************************************************************)
(* C19: when a step of the surgical merge raises, nothing reaches the      *)
(* caller and the text returned is the full regeneration of the same       *)
(* option lists, the text an export without a retained document returns.   *)
(***************************************************************************)
C19_DegradesToRegeneration ==
  MergeRaised =>
    /\ ~call.result.threw
    /\ call.result.path = "fallback"
    /\ call.result = exportToYaml(call.rootOptions, call.gameOptions, Undefined)

\* two option lists that differ in the values of their options at most
ValueOnly(before, after) ==
  /\ Len(after) = Len(before)
  /\ \A i \in 1..Len(before) :
       after[i] = [before[i] EXCEPT !.value = after[i].value]

\* an option of the session whose value is not of the option's edit-kind
Reclassified(option) == determineType(option.value) # option.type

(***************************************************************************)
(* C15: a call of updateRootOption or updateGameOption changes values      *)
(* only: every option keeps its key, edit-kind, comment, flow-style flag   *)
(* and originalValue and its index in its list, the lists keep their       *)
(* lengths, and the edit-kind stays as parsed even when the new value      *)
(* would classify differently.                                            *)
(***************************************************************************)
C15_EditsValueOnly ==
  [][edits' = edits + 1 =>
       /\ ValueOnly(rootOptions, rootOptions')
       /\ Len(gameOptions') = Len(gameOptions)
       /\ \A g \in 1..Len(gameOptions) :
            /\ gameOptions'[g].k = gameOptions[g].k
            /\ ValueOnly(gameOptions[g].v, gameOptions'[g].v)]_vars

\* a session after an edit of a root option and an edit of a section
\* option, with an option whose value classifies differently from its
\* edit-kind
C15_Witness ==
  /\ edits = 2
  /\ \E i \in 1..Len(rootOptions) :
       /\ rootOptions[i].value # rootOptions[i].originalValue
       /\ Reclassified(rootOptions[i])
  /\ \E g \in 1..Len(gameOptions) :
       \E i \in 1..Len(gameOptions[g].v) :
         gameOptions[g].v[i].value # gameOptions[g].v[i].originalValue

\* the texts whose parse is the document the session retains
LoadedTexts == {text \in ParsedTexts : Templates[text].document = originalDocument}

FromLoadOf(text) ==
  LET template == Templates[text]
  IN /\ originalDocument = template.document
     /\ ValueOnly(template.rootOptions, rootOptions)
     /\ \A g \in 1..Len(gameOptions) :
          \E h \in 1..Len(template.gameOptions) :
            /\ template.gameOptions[h].k = gameOptions[g].k
            /\ ValueOnly(template.gameOptions[h].v, gameOptions[g].v)

(***************************************************************************)
(* C16: in every state of a session, whatever the interleaving of loads    *)
(* (upload, file picker, default template) with edits and exports,         *)
(* rootOptions, gameOptions and the retained document come from one and    *)
(* the same load; before the first load all three are empty.               *)
(***************************************************************************)
C16_LoadsWholesale ==
  IF hasTemplate
  THEN \E text \in ParsedTexts : FromLoadOf(text)
  ELSE rootOptions = << >> /\ gameOptions = << >> /\ originalDocument = Undefined

\* an edited session that holds the handle of a file opened through the
\* picker and the document of a later load, with another call of
\* handleLoadFile waiting for its file
C16_Witness ==
  /\ hasTemplate
  /\ edits > 0
  /\ fileHandle # Undefined
  /\ originalDocument # parseDocument(fileHandle.handle)
  /\ \E load \in loads : load.at = "text"
  /\ call.fn = "exportToYaml"

\* a step of a load handler
LoadStep ==
  \/ handleFileUpload
  \/ handleLoadDefault
  \/ handleLoadFile
  \/ handleLoadFileCancelled
  \/ handleLoadFileRead

\* the last step stored a template
Loaded == call.fn = "parseYamlTemplate" /\ ~call.result.threw

(***************************************************************************)
(* C20: a load that fails (the validation rejects the text, the parse      *)
(* raises, the picker is cancelled or the file cannot be read) leaves      *)
(* rootOptions, gameOptions, the retained document, the file, the file     *)
(* handle and hasTemplate as they were; only the error message may change. *)
(***************************************************************************)
C20_FailedLoadKeepsSession ==
  [][(LoadStep /\ ~Loaded') =>
       UNCHANGED <<rootOptions, gameOptions, originalDocument, originalFile,
                   fileHandle, hasTemplate>>]_vars

\* an edited session opened through the picker, after a load whose parse
\* raised
C20_Witness ==
  /\ hasTemplate
  /\ edits > 0
  /\ fileHandle # Undefined
  /\ call.fn = "parseYamlTemplate"
  /\ call.result.threw
  /\ error # ""
  /\ \E i \in 1..Len(rootOptions) :
       rootOptions[i].value # rootOptions[i].originalValue

\* the sections of the loaded template that removeGame took from gameOptions
RemovedSections ==
  UNION {SectionNames(Templates[text]) : text \in LoadedTexts} \ CallSections

(***************************************************************************)
(* C21: after removeGame(g) in a session whose retained tree is a mapping, *)
(* the exported text still has the top-level section g with its original   *)
(* members, and the same option lists exported without a retained tree     *)
(* leave g out.                                                            *)
(***************************************************************************)
C21_RemovalNotReflected ==
  (call.fn = "exportToYaml" /\ call.originalDocument # Undefined
     /\ isMap(call.originalDocument.contents)) =>
    \A g \in RemovedSections :
      /\ ~call.result.threw
      /\ PairIndex(Output, g) # 0
      /\ Output.items[PairIndex(Output, g)] = Original.items[PairIndex(Original, g)]
      /\ LET regenerated == exportToYaml(call.rootOptions, call.gameOptions, Undefined)
         IN /\ ~regenerated.threw
            /\ g \notin KeySet(Decode(regenerated.text).items)

\* handle is the handle of the file the session that retains document was
\* loaded from through the file picker, or was last saved to by Save As
TargetOf(document, handle) ==
  \/ handle = SavedHandleOf(document)
  \/ \E text \in PickerTexts :
       /\ handle = HandleOf(text)
       /\ ~Templates[text].threw
       /\ Templates[text].document = document

(* C22: in every state of a session, whatever the order and interleaving   *)
(* of handleFileUpload, handleLoadFile, handleLoadDefault, handleSaveAs    *)
(* and handleSave, the stored file handle is undefined or the handle of    *)
(* the file the current option lists were loaded from or last saved to,    *)
(* and every write of handleSave puts the export of a document into the    *)
(* file of that document.                                                  *)
C22_SaveTargetMatches ==
  /\ fileHandle # Undefined =>
       hasTemplate /\ TargetOf(originalDocument, fileHandle)
  /\ call.fn = "write" => TargetOf(call.originalDocument, call.handle)

====
